---- MODULE Spec2Model ----
(***************************************************************************)
(* Critical-path scheduling engine of ai_collab_optimizer/app.py:          *)
(* CriticalPathAnalyzer (graph construction, forward pass, backward pass,  *)
(* critical path, bottlenecks, project duration).                          *)
(*                                                                         *)
(* Task ids are the integers 1, 2, 3, 4 standing for "A", "B", "C", "D";   *)
(* their numeric order is the string order of the ids.                     *)
(***************************************************************************)
EXTENDS Integers, Sequences, FiniteSets, TLC

VARIABLES tasks, graph, pc, ret, stdout, err

vars == <<tasks, graph, pc, ret, stdout, err>>

(***************************************************************************)
(* Bounds of the checked input families.                                   *)
(***************************************************************************)
MaxTasks == 3
MaxDur == 2
MaxGanttTasks == 3
MaxStart == 2
MaxResources == 11
MaxCalls == 2
MaxNodes == 2
MaxRecords == 2

TaskIds == 1..MaxTasks

\* float('inf'), the initial late_start / late_finish of a node.
Inf == 1000000

\* The id that is empty after str(...).strip().
EmptyId == 0

\* threshold arguments of identify_bottlenecks, in percent (20 is the default 0.2).
DefaultThreshold == 20
Thresholds == {DefaultThreshold, 50}

\* max_paths arguments of get_minimum_viable_paths (5 is the default)
MaxPaths == 2
DefaultMaxPaths == 5
PathCaps == (0..MaxPaths) \cup {DefaultMaxPaths}

CycleWarning == "Warning: Cycle detected in task dependencies"

(***************************************************************************)
(* Small helpers.                                                          *)
(***************************************************************************)
Range(s) == {s[i] : i \in 1..Len(s)}

MaxOf(S) == CHOOSE x \in S : \A y \in S : y <= x

MinOf(S) == CHOOSE x \in S : \A y \in S : x <= y

RECURSIVE SetToSeq(_)
SetToSeq(S) ==
    IF S = {} THEN <<>>
    ELSE LET m == MinOf(S) IN <<m>> \o SetToSeq(S \ {m})

RECURSIVE SumSeq(_)
SumSeq(s) == IF s = <<>> THEN 0 ELSE Head(s) + SumSeq(Tail(s))

\* Python's sorted(): stable, ascending in the key. s is a sequence of
\* <<key, item>> pairs; the result is the sequence of pairs in sorted order.
RECURSIVE StableSort(_)
StableSort(s) ==
    IF Len(s) <= 1 THEN s
    ELSE LET rest == StableSort(Tail(s))
             x == Head(s)
             n == Cardinality({i \in 1..Len(rest) : rest[i][1] < x[1]})
         IN SubSeq(rest, 1, n) \o <<x>> \o SubSeq(rest, n + 1, Len(rest))

(***************************************************************************)
(* networkx.DiGraph: nodes in insertion order, node attribute dicts,       *)
(* edges in insertion order.                                               *)
(***************************************************************************)
EmptyGraph == [nodes |-> <<>>, data |-> <<>>, edges |-> <<>>]

NodeSet(G) == Range(G.nodes)

add_node(G, n, attrs) ==
    IF n \in NodeSet(G)
    THEN [G EXCEPT !.data = [m \in NodeSet(G) |-> IF m = n THEN attrs ELSE G.data[m]]]
    ELSE [G EXCEPT !.nodes = Append(G.nodes, n),
                   !.data = [m \in NodeSet(G) \cup {n} |->
                                IF m = n THEN attrs ELSE G.data[m]]]

add_edge(G, u, v) ==
    IF <<u, v>> \in Range(G.edges) THEN G
    ELSE [G EXCEPT !.edges = Append(G.edges, <<u, v>>)]

\* G.successors(n) / G.neighbors(n), in edge insertion order.
successors(G, n) ==
    LET es == SelectSeq(G.edges, LAMBDA e : e[1] = n)
    IN [i \in 1..Len(es) |-> es[i][2]]

predecessors(G, n) ==
    LET es == SelectSeq(G.edges, LAMBDA e : e[2] = n)
    IN [i \in 1..Len(es) |-> es[i][1]]

in_degree(G, n) == Len(predecessors(G, n))

out_degree(G, n) == Len(successors(G, n))

\* nx.descendants(G, n): every node reachable from n by one or more edges,
\* n itself excluded.
RECURSIVE bfs(_, _, _)
bfs(G, frontier, seen) ==
    IF frontier = {} THEN seen
    ELSE LET next == UNION {Range(successors(G, u)) : u \in frontier} \ seen
         IN bfs(G, next, seen \cup next)

descendants(G, n) == bfs(G, {n}, {n}) \ {n}

(***************************************************************************)
(* nx.topological_sort: Kahn's algorithm by generations; raises            *)
(* NetworkXUnfeasible when nodes with positive in-degree remain.           *)
(***************************************************************************)
RECURSIVE visit_children(_, _, _, _)
visit_children(ch, i, indeg, zero) ==
    IF i > Len(ch) THEN [indeg |-> indeg, zero |-> zero]
    ELSE LET c == ch[i]
             d == indeg[c] - 1
         IN visit_children(ch, i + 1, [indeg EXCEPT ![c] = d],
                           IF d = 0 THEN Append(zero, c) ELSE zero)

RECURSIVE visit_generation(_, _, _, _, _)
visit_generation(G, gen, i, indeg, zero) ==
    IF i > Len(gen) THEN [indeg |-> indeg, zero |-> zero]
    ELSE LET r == visit_children(successors(G, gen[i]), 1, indeg, zero)
         IN visit_generation(G, gen, i + 1, r.indeg, r.zero)

RECURSIVE generations(_, _, _, _)
generations(G, indeg, zero, order) ==
    IF zero = <<>>
    THEN [ok |-> \A n \in NodeSet(G) : indeg[n] = 0, order |-> order]
    ELSE LET r == visit_generation(G, zero, 1, indeg, <<>>)
         IN generations(G, r.indeg, r.zero, order \o zero)

topological_sort(G) ==
    generations(G,
                [n \in NodeSet(G) |-> in_degree(G, n)],
                SelectSeq(G.nodes, LAMBDA n : in_degree(G, n) = 0),
                <<>>)

(***************************************************************************)
(* CriticalPathAnalyzer._build_dependency_graph                            *)
(***************************************************************************)
\* The keys _build_dependency_graph reads a duration from.
DurationKeys == {"Duration (days)", "duration", "estimated_time"}

\* float(task.get(...)) raises ValueError on a value that is not numeric.
float_raises(task) == task.key \in DurationKeys /\ ~task.numeric

\* float(task.get('Duration (days)', task.get('duration',
\*       task.get('estimated_time', 0)))) as the fraction num / den
duration_days(task) ==
    IF task.key \in DurationKeys
    THEN [num |-> task.raw, den |-> task.den]
    ELSE [num |-> 0, den |-> 1]

\* x * k
times(x, k) == [num |-> x.num * k, den |-> x.den]

\* int(x): truncation toward zero
int(x) == IF x.num >= 0 THEN x.num \div x.den ELSE -((-x.num) \div x.den)

\* mutant of task_duration: every value is taken to be in days
task_duration_days(task) == int(times(duration_days(task), 8))

\* Days are converted to hours (8-hour workdays); other values are hours.
task_duration(task) ==
    IF task.key \in {"Duration (days)", "duration"}
    THEN int(times(duration_days(task), 8))
    ELSE int(duration_days(task))

\* mutant of node_attrs: the duration is stored without the minimum of 1
node_attrs_unclamped(task) ==
    [duration     |-> task_duration(task),
     early_start  |-> 0,
     early_finish |-> 0,
     late_start   |-> Inf,
     late_finish  |-> Inf,
     slack        |-> 0,
     is_critical  |-> FALSE,
     is_bottleneck |-> FALSE,
     impact       |-> 0]

node_attrs(task) ==
    [duration     |-> IF task_duration(task) > 1 THEN task_duration(task) ELSE 1,
     early_start  |-> 0,
     early_finish |-> 0,
     late_start   |-> Inf,
     late_finish  |-> Inf,
     slack        |-> 0,
     is_critical  |-> FALSE,
     is_bottleneck |-> FALSE,
     impact       |-> 0]

\* mutant of add_nodes: a record with an empty id becomes a node
RECURSIVE add_nodes_all(_, _, _)
add_nodes_all(G, ts, i) ==
    IF i > Len(ts) THEN G
    ELSE add_nodes_all(add_node(G, ts[i].id, node_attrs(ts[i])), ts, i + 1)

RECURSIVE add_nodes(_, _, _)
add_nodes(G, ts, i) ==
    IF i > Len(ts) THEN G
    ELSE IF ts[i].id = EmptyId THEN add_nodes(G, ts, i + 1)
    ELSE add_nodes(add_node(G, ts[i].id, node_attrs(ts[i])), ts, i + 1)

\* mutant of add_deps: a task may depend on itself
RECURSIVE add_deps_any(_, _, _, _)
add_deps_any(G, task_id, deps, j) ==
    IF j > Len(deps) THEN G
    ELSE LET dep_id == deps[j]
         IN IF dep_id \in NodeSet(G) /\ task_id \in NodeSet(G)
            THEN add_deps_any(add_edge(G, dep_id, task_id), task_id, deps, j + 1)
            ELSE add_deps_any(G, task_id, deps, j + 1)

RECURSIVE add_deps(_, _, _, _)
add_deps(G, task_id, deps, j) ==
    IF j > Len(deps) THEN G
    ELSE LET dep_id == deps[j]
         IN IF dep_id \in NodeSet(G) /\ task_id \in NodeSet(G) /\ dep_id # task_id
            THEN add_deps(add_edge(G, dep_id, task_id), task_id, deps, j + 1)
            ELSE add_deps(G, task_id, deps, j + 1)

RECURSIVE add_edges(_, _, _)
add_edges(G, ts, i) ==
    IF i > Len(ts) THEN G
    ELSE IF ts[i].id = EmptyId \/ ts[i].id \notin NodeSet(G)
         THEN add_edges(G, ts, i + 1)
         ELSE add_edges(add_deps(G, ts[i].id, ts[i].deps, 1), ts, i + 1)

\* The first loop raises at the first record with a non-empty id whose
\* duration is not numeric; nothing catches the ValueError.
build_raises(ts) ==
    \E i \in 1..Len(ts) : ts[i].id # EmptyId /\ float_raises(ts[i])

build_dependency_graph(ts) ==
    IF ts = <<>> THEN EmptyGraph
    ELSE add_edges(add_nodes(EmptyGraph, ts, 1), ts, 1)

(***************************************************************************)
(* CriticalPathAnalyzer.forward_pass                                       *)
(***************************************************************************)
\* mutant of early_start_of: the earliest predecessor instead of the latest
early_start_min(G, node) ==
    LET preds == Range(predecessors(G, node))
    IN IF preds = {} THEN 0
       ELSE MinOf({G.data[p].early_finish : p \in preds})

early_start_of(G, node) ==
    LET preds == Range(predecessors(G, node))
    IN IF preds = {} THEN 0
       ELSE MaxOf({G.data[p].early_finish : p \in preds})

\* mutant of forward_loop: early_finish accumulates (+=) instead of being assigned
RECURSIVE forward_loop_accumulate(_, _, _)
forward_loop_accumulate(G, order, i) ==
    IF i > Len(order) THEN G
    ELSE LET node == order[i]
             es == early_start_of(G, node)
             G2 == [G EXCEPT !.data[node].early_start = es,
                             !.data[node].early_finish =
                                 G.data[node].early_finish + es + G.data[node].duration]
         IN forward_loop_accumulate(G2, order, i + 1)

RECURSIVE forward_loop(_, _, _)
forward_loop(G, order, i) ==
    IF i > Len(order) THEN G
    ELSE LET node == order[i]
             es == early_start_of(G, node)
             G2 == [G EXCEPT !.data[node].early_start = es,
                             !.data[node].early_finish = es + G.data[node].duration]
         IN forward_loop(G2, order, i + 1)

forward_order(G) == topological_sort(G)

forward_result(G) ==
    LET topo == forward_order(G)
    IN IF topo.ok THEN [graph |-> forward_loop(G, topo.order, 1), out |-> {}]
       ELSE [graph |-> G, out |-> {CycleWarning}]

(***************************************************************************)
(* CriticalPathAnalyzer.backward_pass                                      *)
(***************************************************************************)
\* x - d in float arithmetic, where x may be float('inf').
minus(x, d) == IF x = Inf THEN Inf ELSE x - d

\* mutant of project_end_of: the smallest early_finish instead of the largest
project_end_min(G) == MinOf({G.data[n].early_finish : n \in NodeSet(G)})

project_end_of(G) == MaxOf({G.data[n].early_finish : n \in NodeSet(G)})

reset_late(G) ==
    [G EXCEPT !.data = [n \in NodeSet(G) |->
                           [G.data[n] EXCEPT !.late_finish = Inf, !.late_start = Inf]]]

\* mutant of late_finish_of: the latest successor instead of the earliest
late_finish_max(G, node, project_end) ==
    LET succs == Range(successors(G, node))
    IN IF succs = {} THEN project_end
       ELSE MaxOf({G.data[s].late_start : s \in succs})

late_finish_of(G, node, project_end) ==
    LET succs == Range(successors(G, node))
    IN IF succs = {} THEN project_end
       ELSE MinOf({G.data[s].late_start : s \in succs})

\* mutant of is_critical_slack: a task one unit from critical counts as critical
is_critical_slack_near(slack) == slack <= 1

\* abs(slack) < 1e-6 on integer-valued slack.
is_critical_slack(slack) == slack = 0

RECURSIVE backward_loop(_, _, _, _)
backward_loop(G, order, i, project_end) ==
    IF i > Len(order) THEN G
    ELSE LET node == order[i]
             lf == late_finish_of(G, node, project_end)
             ls == minus(lf, G.data[node].duration)
             slack == minus(ls, G.data[node].early_start)
             G2 == [G EXCEPT !.data[node].late_finish = lf,
                             !.data[node].late_start = ls,
                             !.data[node].slack = slack,
                             !.data[node].is_critical = is_critical_slack(slack)]
         IN backward_loop(G2, order, i + 1, project_end)

Reverse(s) == [i \in 1..Len(s) |-> s[Len(s) + 1 - i]]

backward_result(G) ==
    IF G.nodes = <<>> THEN [graph |-> G, out |-> {}]
    ELSE LET topo == topological_sort(G)
         IN IF topo.ok
            THEN [graph |-> backward_loop(reset_late(G), Reverse(topo.order), 1,
                                          project_end_of(G)),
                  out |-> {}]
            ELSE [graph |-> G, out |-> {CycleWarning}]

(***************************************************************************)
(* CriticalPathAnalyzer.get_critical_path                                  *)
(***************************************************************************)
task_dict(G, node) ==
    [id           |-> node,
     duration     |-> G.data[node].duration,
     early_start  |-> G.data[node].early_start,
     early_finish |-> G.data[node].early_finish,
     late_start   |-> G.data[node].late_start,
     late_finish  |-> G.data[node].late_finish,
     slack        |-> G.data[node].slack,
     is_critical  |-> G.data[node].is_critical]

\* mutant of critical_sort_key: sorted by id
critical_sort_key_id(G, node) == node

critical_sort_key(G, node) == G.data[node].early_start

get_critical_path(G) ==
    LET critical_nodes == SelectSeq(G.nodes, LAMBDA n : G.data[n].is_critical)
        keyed == [i \in 1..Len(critical_nodes) |->
                     <<critical_sort_key(G, critical_nodes[i]), critical_nodes[i]>>]
        critical_nodes_sorted == StableSort(keyed)
    IN [i \in 1..Len(critical_nodes_sorted) |->
           task_dict(G, critical_nodes_sorted[i][2])]

(***************************************************************************)
(* CriticalPathAnalyzer.get_project_duration                               *)
(***************************************************************************)
\* mutant of get_project_duration: the largest early_start
get_project_duration_start(G) ==
    IF G.nodes = <<>> THEN 0
    ELSE MaxOf({G.data[n].early_start : n \in NodeSet(G)})

\* mutant of get_project_duration: never less than one unit
get_project_duration_positive(G) ==
    MaxOf({G.data[n].early_finish : n \in NodeSet(G)} \cup {1})

get_project_duration(G) ==
    IF G.nodes = <<>> THEN 0
    ELSE MaxOf({G.data[n].early_finish : n \in NodeSet(G)})

(***************************************************************************)
(* CriticalPathAnalyzer.identify_bottlenecks                               *)
(* threshold is given in percent; slack <= project_duration * threshold is *)
(* evaluated exactly as slack * 100 <= project_duration * percent.         *)
(***************************************************************************)
bottleneck_dict(G, node) ==
    [id          |-> node,
     duration    |-> G.data[node].duration,
     impact      |-> Cardinality(descendants(G, node)),
     slack       |-> G.data[node].slack,
     early_start |-> G.data[node].early_start,
     late_start  |-> G.data[node].late_start]

\* mutant of is_bottleneck_node: a single descendant is enough
is_bottleneck_node_any(G, node, threshold) ==
    /\ G.data[node].duration > 0
    /\ G.data[node].slack * 100 <=
          MaxOf({G.data[n].early_finish : n \in NodeSet(G)}) * threshold
    /\ Cardinality(descendants(G, node)) > 0

is_bottleneck_node(G, node, threshold) ==
    /\ G.data[node].duration > 0
    /\ G.data[node].slack * 100 <=
          MaxOf({G.data[n].early_finish : n \in NodeSet(G)}) * threshold
    /\ Cardinality(descendants(G, node)) > 1

\* sorted(bottlenecks, key=impact, reverse=True): stable, descending impact.
bottleneck_sort(bs) ==
    LET keyed == [i \in 1..Len(bs) |-> <<0 - bs[i].impact, bs[i]>>]
        sorted == StableSort(keyed)
    IN [i \in 1..Len(sorted) |-> sorted[i][2]]

mark_bottlenecks(G, threshold) ==
    [G EXCEPT !.data = [n \in NodeSet(G) |->
        IF is_bottleneck_node(G, n, threshold)
        THEN [G.data[n] EXCEPT !.is_bottleneck = TRUE,
                               !.impact = Cardinality(descendants(G, n))]
        ELSE G.data[n]]]

identify_bottlenecks(G, threshold) ==
    IF G.nodes = <<>> THEN [graph |-> G, val |-> <<>>]
    ELSE LET hit == SelectSeq(G.nodes, LAMBDA n : is_bottleneck_node(G, n, threshold))
             bottlenecks == [i \in 1..Len(hit) |-> bottleneck_dict(G, hit[i])]
         IN [graph |-> mark_bottlenecks(G, threshold),
             val   |-> bottleneck_sort(bottlenecks)]

(***************************************************************************)
(* CriticalPathAnalyzer.get_minimum_viable_paths                           *)
(***************************************************************************)
\* nx.all_simple_paths(G, source, target): depth-first along the successors
\* in adjacency order, no node repeated; the one-node path is yielded when
\* source = target (networkx 3.2 and later).
RECURSIVE extend_paths(_, _, _, _, _)
RECURSIVE paths_through(_, _, _)
paths_through(G, path, target) ==
    IF path[Len(path)] = target THEN <<path>>
    ELSE extend_paths(G, path, target, successors(G, path[Len(path)]), 1)

extend_paths(G, path, target, succs, i) ==
    IF i > Len(succs) THEN <<>>
    ELSE (IF succs[i] \in Range(path) THEN <<>>
          ELSE paths_through(G, Append(path, succs[i]), target))
         \o extend_paths(G, path, target, succs, i + 1)

\* mutant of all_simple_paths: nothing is generated when source = target
all_simple_paths_distinct(G, source, target) ==
    IF source = target THEN <<>> ELSE paths_through(G, <<source>>, target)

all_simple_paths(G, source, target) == paths_through(G, <<source>>, target)

path_task(G, node) == [id |-> node, duration |-> G.data[node].duration]

\* one entry of all_paths
path_info(G, path) ==
    [path        |-> [i \in 1..Len(path) |-> path_task(G, path[i])],
     duration    |-> SumSeq([i \in 1..Len(path) |-> G.data[path[i]].duration]),
     is_critical |-> \A i \in 1..Len(path) : G.data[path[i]].is_critical]

RECURSIVE Flatten(_)
Flatten(ss) == IF ss = <<>> THEN <<>> ELSE Head(ss) \o Flatten(Tail(ss))

\* all_paths before sorting: for start in start_nodes: for end in end_nodes
all_paths(G) ==
    LET start_nodes == SelectSeq(G.nodes, LAMBDA n : in_degree(G, n) = 0)
        end_nodes   == SelectSeq(G.nodes, LAMBDA n : out_degree(G, n) = 0)
        found == Flatten([a \in 1..Len(start_nodes) |->
                    Flatten([b \in 1..Len(end_nodes) |->
                        all_simple_paths(G, start_nodes[a], end_nodes[b])])])
    IN [i \in 1..Len(found) |-> path_info(G, found[i])]

\* mutant of sorted_paths: the paths stay in enumeration order
sorted_paths_enumerated(G) == all_paths(G)

\* all_paths.sort(key=duration): stable, ascending
sorted_paths(G) ==
    LET infos == all_paths(G)
        sorted == StableSort([i \in 1..Len(infos) |-> <<infos[i].duration, infos[i]>>])
    IN [i \in 1..Len(sorted) |-> sorted[i][2]]

\* all_paths[:max_paths] for max_paths >= 0
take(s, k) == SubSeq(s, 1, IF k < Len(s) THEN k ELSE Len(s))

\* path_info['path']: the returned element is the bare list of task
\* dictionaries, written as a record with that one field.
returned_path(info) == [path |-> info.path]

get_minimum_viable_paths(G, max_paths) ==
    LET kept == take(sorted_paths(G), max_paths)
    IN [i \in 1..Len(kept) |-> returned_path(kept[i])]

(***************************************************************************)
(* GanttChart                                                              *)
(***************************************************************************)
\* self.colors
colors ==
    <<"#1f77b4", "#ff7f0e", "#2ca02c", "#d62728", "#9467bd",
      "#8c564b", "#e377c2", "#7f7f7f", "#bcbd22", "#17becf">>

\* resource_colors.keys() after the first i tasks: the distinct resources in
\* the order in which they were first seen
RECURSIVE resources_seen(_, _)
resources_seen(ts, i) ==
    IF i = 0 THEN <<>>
    ELSE LET before == resources_seen(ts, i - 1)
         IN IF ts[i].resource \in Range(before) THEN before
            ELSE Append(before, ts[i].resource)

\* mutant of new_color: every resource gets the first colour
new_color_first(count) == colors[1]

\* self.colors[len(resource_colors) % len(self.colors)], count entries so far
new_color(count) == colors[(count % Len(colors)) + 1]

\* resource_colors after the loop
resource_colors(ts) ==
    LET seen == resources_seen(ts, Len(ts))
    IN [r \in Range(seen) |->
           new_color((CHOOSE k \in 1..Len(seen) : seen[k] = r) - 1)]

\* mutant of finish_of: the duration alone
finish_of_duration(start, duration) == duration

\* 'Finish': start + duration
finish_of(start, duration) == start + duration

\* the entry appended to processed_tasks for the i-th task
processed_task(ts, i) ==
    LET duration == int([num |-> ts[i].raw, den |-> ts[i].den])
    IN [Task_ID  |-> ts[i].id,
        Start    |-> ts[i].early_start,
        Finish   |-> finish_of(ts[i].early_start, duration),
        Resource |-> ts[i].resource,
        Duration |-> duration,
        Color    |-> resource_colors(ts)[ts[i].resource]]

\* the returned dictionary; {} for an empty task list
generate_gantt_data(ts) ==
    IF ts = <<>> THEN <<>>
    ELSE LET sorted == StableSort([i \in 1..Len(ts) |->
                           <<ts[i].early_start, processed_task(ts, i)>>])
             processed_tasks == [i \in 1..Len(sorted) |-> sorted[i][2]]
         IN [tasks            |-> processed_tasks,
             resources        |-> resources_seen(ts, Len(ts)),
             resource_colors  |-> resource_colors(ts),
             project_duration |->
                 MaxOf({processed_tasks[i].Finish : i \in 1..Len(processed_tasks)})]

(***************************************************************************)
(* Input task lists.                                                       *)
(***************************************************************************)
Perms(S) ==
    {o \in [1..Cardinality(S) -> S] : \A i, j \in 1..Cardinality(S) : o[i] = o[j] => i = j}

\* a record whose duration is given in the target unit (key 'estimated_time')
\* A task record: its trimmed id, the duration key it carries, the value
\* under that key (the fraction raw / den, or a text that is not a number
\* when numeric is FALSE) and its dependency ids.
Task(i, k, v, deps) ==
    [id |-> i, key |-> k, raw |-> v.raw, den |-> v.den, numeric |-> v.numeric,
     deps |-> deps]

Whole(d) == [raw |-> d, den |-> 1, numeric |-> TRUE]

HoursTask(i, d, deps) == Task(i, "estimated_time", Whole(d), SetToSeq(deps))

\* Every list of at most MaxTasks records with distinct ids, in every record
\* order, durations 1..MaxDur, each task depending on any set of other ids
\* (ids that name no record of the list included), cycles included.
GeneralInputs ==
    UNION {UNION {
        {[k \in 1..Len(o) |-> HoursTask(o[k], dur[o[k]], dep[o[k]])] :
            dur \in [S -> 1..MaxDur],
            dep \in {d \in [S -> SUBSET TaskIds] : \A i \in S : i \notin d[i]}}
        : o \in Perms(S)} : S \in SUBSET TaskIds}

\* The four tasks A(2), B(3), C(1), D(4) of the documented scenario.
ScenarioIds == {1, 2, 3, 4}
ScenarioDuration == <<2, 3, 1, 4>>
ScenarioDeps == <<{}, {1}, {1}, {2, 3}>>

\* The scenario's four tasks in every record order, each depending on any set
\* of tasks with a smaller id; ScenarioDeps is one of these choices.
ScenarioInputs ==
    UNION {
        {[k \in 1..4 |-> HoursTask(o[k], ScenarioDuration[o[k]], dep[o[k]])] :
            dep \in {d \in [ScenarioIds -> SUBSET ScenarioIds] :
                        \A i \in ScenarioIds : \A j \in d[i] : j < i}}
        : o \in Perms(ScenarioIds)}

Inputs == GeneralInputs \cup ScenarioInputs

\* Records as they arrive: ids that may be empty or repeated, every duration
\* key (and 'Duration', which the analyzer does not read), values -1.5, 0,
\* 0.1, 1.2, 2.5 and a text that is not a number.
RecordIds == {EmptyId} \cup (1..MaxRecords)

RecordKeys == DurationKeys \cup {"Duration"}

RecordValues ==
    {[raw |-> -15, den |-> 10, numeric |-> TRUE],
     Whole(0),
     [raw |-> 1, den |-> 10, numeric |-> TRUE],
     [raw |-> 12, den |-> 10, numeric |-> TRUE],
     [raw |-> 25, den |-> 10, numeric |-> TRUE],
     [raw |-> 0, den |-> 1, numeric |-> FALSE]}

ListsOf(S) == UNION {[1..n -> S] : n \in 0..MaxRecords}

\* every record names task 1 as its dependency (for task 1, itself)
ValueRecords ==
    {Task(i, k, v, <<1>>) : i \in RecordIds, k \in RecordKeys, v \in RecordValues}

ValueInputs == ListsOf(ValueRecords)

\* every set of dependency ids, the record's own id and an id that names no
\* record (MaxRecords + 1) included
DependencyRecords ==
    {HoursTask(i, 1, deps) : i \in RecordIds, deps \in SUBSET (1..(MaxRecords + 1))}

DependencyInputs == ListsOf(DependencyRecords)

\* one such record at any position of a batch of two well-formed records
Batch == <<HoursTask(1, 1, {}), HoursTask(MaxRecords, MaxRecords, {1})>>

InsertAt(s, p, r) == SubSeq(s, 1, p - 1) \o <<r>> \o SubSeq(s, p, Len(s))

BatchInputs ==
    {InsertAt(Batch, p, r) : p \in 1..(Len(Batch) + 1),
                             r \in ValueRecords \cup DependencyRecords}

BuildInputs == ValueInputs \cup DependencyInputs \cup BatchInputs

(***************************************************************************)
(* GraphEditor: a networkx.DiGraph whose node attribute dicts hold          *)
(* 'duration' and 'dependencies' (set by add_node) and whatever else        *)
(* update_node was given ('note' stands for such a key; Absent = not set).  *)
(***************************************************************************)
Absent == -2

\* a keyword argument that is None
None == -1

\* mutant of remove_node: the incident edges stay
remove_node_only(G, n) ==
    LET kept == SelectSeq(G.nodes, LAMBDA m : m # n)
    IN [nodes |-> kept,
        data  |-> [m \in Range(kept) |-> G.data[m]],
        edges |-> G.edges]

\* DiGraph.remove_node(n): the node, its attributes and its incident edges
remove_node(G, n) ==
    LET kept == SelectSeq(G.nodes, LAMBDA m : m # n)
    IN [nodes |-> kept,
        data  |-> [m \in Range(kept) |-> G.data[m]],
        edges |-> SelectSeq(G.edges, LAMBDA e : e[1] # n /\ e[2] # n)]

has_edge(G, u, v) == <<u, v>> \in Range(G.edges)

remove_edge(G, u, v) == [G EXCEPT !.edges = SelectSeq(G.edges, LAMBDA e : e # <<u, v>>)]

\* GraphEditor.add_node: DiGraph.add_node(node_id, **attrs) creates the node
\* or updates the given attributes of an existing one.
GraphEditor_add_node(G, node_id, duration, dependencies) ==
    add_node(G, node_id,
             [duration     |-> duration,
              dependencies |-> dependencies,
              note         |-> IF node_id \in NodeSet(G) THEN G.data[node_id].note
                               ELSE Absent])

\* Each method below gives the graph after the call and the returned value.
GraphEditor_remove_node(G, node_id) ==
    IF node_id \in NodeSet(G)
    THEN [graph |-> remove_node(G, node_id), val |-> TRUE]
    ELSE [graph |-> G, val |-> FALSE]

\* add_edge guarding the source only
GraphEditor_add_edge_source_only(G, source, target) ==
    IF source \in NodeSet(G)
    THEN [graph |-> add_edge(G, source, target), val |-> TRUE]
    ELSE [graph |-> G, val |-> FALSE]

GraphEditor_add_edge(G, source, target) ==
    IF source \in NodeSet(G) /\ target \in NodeSet(G)
    THEN [graph |-> add_edge(G, source, target), val |-> TRUE]
    ELSE [graph |-> G, val |-> FALSE]

GraphEditor_remove_edge(G, source, target) ==
    IF has_edge(G, source, target)
    THEN [graph |-> remove_edge(G, source, target), val |-> TRUE]
    ELSE [graph |-> G, val |-> FALSE]

\* kwargs is a record of the keys given; a key whose value is None is skipped
update_attrs(attrs, kwargs) ==
    [k \in DOMAIN attrs |->
        IF k \in DOMAIN kwargs /\ kwargs[k] # None THEN kwargs[k] ELSE attrs[k]]

GraphEditor_update_node(G, node_id, kwargs) ==
    IF node_id \in NodeSet(G)
    THEN [graph |-> [G EXCEPT !.data[node_id] = update_attrs(G.data[node_id], kwargs)],
          val |-> TRUE]
    ELSE [graph |-> G, val |-> FALSE]

GraphEditor_clear_graph(G) == EmptyGraph

\* GraphEditor.export_tasks: one dict per node, 'Duration' from the node's
\* attribute and 'Dependencies' the list of its predecessors.
export_task(G, node_id) ==
    Task(node_id, "Duration", Whole(G.data[node_id].duration), predecessors(G, node_id))

GraphEditor_export_tasks(G) ==
    [i \in 1..Len(G.nodes) |-> export_task(G, G.nodes[i])]

(***************************************************************************)
(* The analyzer as a state machine: the constructor's three steps, then    *)
(* the public methods in any order.                                        *)
(***************************************************************************)
NoRet == [op |-> "none", arg |-> 0, list |-> <<>>, num |-> 0]

Init ==
    /\ tasks \in Inputs
    /\ graph = EmptyGraph
    /\ pc = "new"
    /\ ret = NoRet
    /\ stdout = {}
    /\ err = "none"

\* __init__: self.graph = self._build_dependency_graph()
BuildGraph ==
    /\ pc = "new"
    /\ IF build_raises(tasks)
       THEN /\ err' = "ValueError"
            /\ pc' = "failed"
            /\ UNCHANGED graph
       ELSE /\ graph' = build_dependency_graph(tasks)
            /\ pc' = "built"
            /\ UNCHANGED err
    /\ UNCHANGED <<tasks, ret, stdout>>

\* forward_pass(), from __init__ or called again on the constructed analyzer
ForwardPass ==
    /\ pc \in {"built", "ready"}
    /\ LET r == forward_result(graph)
       IN /\ graph' = r.graph
          /\ stdout' = stdout \cup r.out
    /\ pc' = IF pc = "built" THEN "forwarded" ELSE pc
    /\ UNCHANGED <<tasks, ret, err>>

\* backward_pass(), from __init__ or called again on the constructed analyzer
BackwardPass ==
    /\ pc \in {"forwarded", "ready"}
    /\ LET r == backward_result(graph)
       IN /\ graph' = r.graph
          /\ stdout' = stdout \cup r.out
    /\ pc' = "ready"
    /\ UNCHANGED <<tasks, ret, err>>

CallGetCriticalPath ==
    /\ pc = "ready"
    /\ ret' = [op |-> "get_critical_path", arg |-> 0,
               list |-> get_critical_path(graph), num |-> 0]
    /\ UNCHANGED <<tasks, graph, pc, stdout, err>>

CallGetProjectDuration ==
    /\ pc = "ready"
    /\ ret' = [op |-> "get_project_duration", arg |-> 0,
               list |-> <<>>, num |-> get_project_duration(graph)]
    /\ UNCHANGED <<tasks, graph, pc, stdout, err>>

CallIdentifyBottlenecks ==
    /\ pc = "ready"
    /\ \E threshold \in Thresholds :
          LET r == identify_bottlenecks(graph, threshold)
          IN /\ graph' = r.graph
             /\ ret' = [op |-> "identify_bottlenecks", arg |-> threshold,
                        list |-> r.val, num |-> 0]
    /\ UNCHANGED <<tasks, pc, stdout, err>>

CallGetMinimumViablePaths ==
    /\ pc = "ready"
    /\ \E max_paths \in PathCaps :
          ret' = [op |-> "get_minimum_viable_paths", arg |-> max_paths,
                  list |-> get_minimum_viable_paths(graph, max_paths), num |-> 0]
    /\ UNCHANGED <<tasks, graph, pc, stdout, err>>

Next ==
    \/ BuildGraph
    \/ ForwardPass
    \/ BackwardPass
    \/ CallGetCriticalPath
    \/ CallGetProjectDuration
    \/ CallIdentifyBottlenecks

Spec == Init /\ [][Next]_vars

\* The analyzer on records as they arrive.
InitBuild ==
    /\ tasks \in BuildInputs
    /\ graph = EmptyGraph
    /\ pc = "new"
    /\ ret = NoRet
    /\ stdout = {}
    /\ err = "none"

SpecBuild == InitBuild /\ [][Next]_vars

\* The analyzer's construction followed by path enumeration.
PathsNext ==
    \/ BuildGraph
    \/ ForwardPass
    \/ BackwardPass
    \/ CallGetMinimumViablePaths

SpecPaths == Init /\ [][PathsNext]_vars

\* One task of a day ('duration' 1, eight hours) beside three tasks of
\* 1..MaxDur hours of which the first precedes the other two, in a chain or a fan.
SlackInputs ==
    {<<HoursTask(1, dur[1], {}), HoursTask(2, dur[2], {1}), HoursTask(3, dur[3], {second}),
       Task(4, "duration", Whole(1), <<>>)>> :
        dur \in [1..3 -> 1..MaxDur], second \in {1, 2}}

InitBottlenecks ==
    /\ tasks \in GeneralInputs \cup SlackInputs
    /\ graph = EmptyGraph
    /\ pc = "new"
    /\ ret = NoRet
    /\ stdout = {}
    /\ err = "none"

\* The analyzer's construction followed by identify_bottlenecks calls.
BottlenecksNext ==
    \/ BuildGraph
    \/ ForwardPass
    \/ BackwardPass
    \/ CallIdentifyBottlenecks

SpecBottlenecks == InitBottlenecks /\ [][BottlenecksNext]_vars

(***************************************************************************)
(* GanttChart.generate_gantt_data on a task list.                          *)
(***************************************************************************)
\* A task as generate_gantt_data reads it: 'task_id', 'early_start',
\* 'Duration' (the fraction raw / den) and 'Resource'.
GanttTask(i, start, v, r) ==
    [id |-> i, early_start |-> start, raw |-> v.raw, den |-> v.den, resource |-> r]

\* durations 0, 1.5 and 2
GanttDurations == {Whole(0), [raw |-> 15, den |-> 10, numeric |-> TRUE], Whole(2)}

\* up to MaxGanttTasks tasks, any start and duration, one of two resources
ScheduleInputs ==
    UNION {{[i \in 1..n |-> GanttTask(i, st[i], d[i], r[i])] :
               st \in [1..n -> 0..MaxStart],
               d \in [1..n -> GanttDurations],
               r \in [1..n -> {1, 2}]}
           : n \in 0..MaxGanttTasks}

\* MaxResources tasks, the i-th held by resource i or by the first resource
ResourceInputs ==
    {[i \in 1..MaxResources |-> GanttTask(i, 0, Whole(1), IF i \in own THEN i ELSE 1)] :
        own \in SUBSET (1..MaxResources)}

GanttInputs == ScheduleInputs \cup ResourceInputs

InitGantt ==
    /\ tasks \in GanttInputs
    /\ graph = EmptyGraph
    /\ pc = "chart"
    /\ ret = NoRet
    /\ stdout = {}
    /\ err = "none"

GenerateGanttData ==
    /\ pc = "chart"
    /\ ret' = [op |-> "generate_gantt_data", arg |-> 0, list |-> <<>>, num |-> 0,
               data |-> generate_gantt_data(tasks)]
    /\ pc' = "charted"
    /\ UNCHANGED <<tasks, graph, stdout, err>>

GanttNext == GenerateGanttData

SpecGantt == InitGantt /\ [][GanttNext]_vars

(***************************************************************************)
(* analyze_workflow on the module-level graph_editor.  Here graph is        *)
(* graph_editor.graph, shared by all calls, and tasks, pc and ret hold, for *)
(* each call, its argument, its position and what it has computed.  The     *)
(* request handlers run as threads: a call's statements may interleave with *)
(* another call's.                                                          *)
(***************************************************************************)
Calls == 1..MaxCalls

\* int(float(task.get('Duration', task.get('duration',
\*     task.get('estimated_time', 0))))), 1 when that is <= 0 or fails
workflow_duration(task) ==
    IF task.key \notin {"Duration", "duration", "estimated_time"} \/ ~task.numeric
    THEN 1
    ELSE LET duration == int([num |-> task.raw, den |-> task.den])
         IN IF duration <= 0 THEN 1 ELSE duration

\* up to MaxRecords tasks with ids 1, 2, ... in order (or one task with any
\* of these ids), durations 1..MaxDur, each depending on any earlier tasks
WorkflowInputs ==
    {<<>>}
    \cup {<<HoursTask(i, d, {})>> : i \in 1..MaxRecords, d \in 1..MaxDur}
    \cup UNION {{[i \in 1..n |-> HoursTask(i, dur[i], dep[i])] :
                    dur \in [1..n -> 1..MaxDur],
                    dep \in {f \in [1..n -> SUBSET (1..n)] :
                                \A i \in 1..n : \A j \in f[i] : j < i}}
                : n \in 2..MaxRecords}

Idle == [at |-> "idle", i |-> 0]

NoResult == [success |-> FALSE, error |-> "none", handed |-> <<>>,
             critical_path |-> <<>>, project_duration |-> 0]

InitWorkflow ==
    /\ tasks \in [Calls -> WorkflowInputs]
    /\ graph = EmptyGraph
    /\ pc = [c \in Calls |-> Idle]
    /\ ret = [c \in Calls |-> NoResult]
    /\ stdout = {}
    /\ err = "none"

\* /api/graph/update with action add_node, before the analyses start
UpdateGraphAddNode ==
    /\ \A c \in Calls : pc[c] = Idle
    /\ \E node_id \in 1..MaxRecords, duration \in 0..MaxDur :
          graph' = GraphEditor_add_node(graph, node_id, duration, <<>>)
    /\ UNCHANGED <<tasks, pc, ret, stdout, err>>

\* graph_editor.clear_graph()
WorkflowClear(c) ==
    /\ pc[c] = Idle
    /\ graph' = GraphEditor_clear_graph(graph)
    /\ pc' = [pc EXCEPT ![c] = [at |-> "adding", i |-> 1]]
    /\ UNCHANGED <<tasks, ret, stdout, err>>

\* one iteration of "for task in tasks": skip an empty id, else add_node
WorkflowAddNode(c) ==
    /\ pc[c].at = "adding"
    /\ pc[c].i <= Len(tasks[c])
    /\ LET task == tasks[c][pc[c].i]
       IN graph' = IF task.id = EmptyId THEN graph
                   ELSE GraphEditor_add_node(graph, task.id, workflow_duration(task),
                                             task.deps)
    /\ pc' = [pc EXCEPT ![c].i = @ + 1]
    /\ UNCHANGED <<tasks, ret, stdout, err>>

\* The rest of the call.  "node not in cpa.graph.nodes" tests a task
\* dictionary for membership in the node view, which raises TypeError
\* (unhashable type) on the first critical task; the handler's except clause
\* turns every exception into a result with success = False.
workflow_result(G) ==
    IF G.nodes = <<>>
    THEN [NoResult EXCEPT !.error = "ValueError"]
    ELSE LET tasks_for_analysis == GraphEditor_export_tasks(G)
             cpa == backward_result(forward_result(
                        build_dependency_graph(tasks_for_analysis)).graph).graph
             critical_nodes == get_critical_path(cpa)
         IN IF critical_nodes # <<>>
            THEN [NoResult EXCEPT !.error = "TypeError", !.handed = tasks_for_analysis]
            ELSE [success          |-> TRUE,
                  error            |-> "none",
                  handed           |-> tasks_for_analysis,
                  critical_path    |-> <<>>,
                  project_duration |-> get_project_duration(cpa)]

WorkflowAnalyze(c) ==
    /\ pc[c].at = "adding"
    /\ pc[c].i > Len(tasks[c])
    /\ ret' = [ret EXCEPT ![c] = workflow_result(graph)]
    /\ pc' = [pc EXCEPT ![c] = [at |-> "done", i |-> 0]]
    /\ UNCHANGED <<tasks, graph, stdout, err>>

WorkflowNext ==
    \/ UpdateGraphAddNode
    \/ \E c \in Calls : WorkflowClear(c)
    \/ \E c \in Calls : WorkflowAddNode(c)
    \/ \E c \in Calls : WorkflowAnalyze(c)

SpecWorkflow == InitWorkflow /\ [][WorkflowNext]_vars

(***************************************************************************)
(* A GraphEditor under any sequence of its operations.  graph is            *)
(* self.graph; ret records the last call: the method, its arguments, the    *)
(* returned value and the graph before the call.                            *)
(***************************************************************************)
EditorIds == 1..MaxNodes

\* keyword arguments given to update_node
EditorKwargs ==
    {[duration |-> None, note |-> None],
     [duration |-> 1, note |-> None],
     [duration |-> None, note |-> 1]}

NoKwargs == [duration |-> None, note |-> None]

Called(op, node_id, target, kwargs, val, before) ==
    [op |-> op, node |-> node_id, target |-> target, kwargs |-> kwargs,
     val |-> val, before |-> before]

InitEditor ==
    /\ tasks = <<>>
    /\ graph = EmptyGraph
    /\ pc = "editor"
    /\ ret = Called("none", 0, 0, NoKwargs, FALSE, EmptyGraph)
    /\ stdout = {}
    /\ err = "none"

EditorAddNode ==
    /\ pc = "editor"
    /\ \E node_id \in EditorIds, duration \in 0..MaxDur :
          /\ graph' = GraphEditor_add_node(graph, node_id, duration, <<>>)
          /\ ret' = Called("add_node", node_id, duration, NoKwargs, FALSE, graph)
    /\ UNCHANGED <<tasks, pc, stdout, err>>

EditorRemoveNode ==
    /\ pc = "editor"
    /\ \E node_id \in EditorIds :
          LET r == GraphEditor_remove_node(graph, node_id)
          IN /\ graph' = r.graph
             /\ ret' = Called("remove_node", node_id, 0, NoKwargs, r.val, graph)
    /\ UNCHANGED <<tasks, pc, stdout, err>>

EditorAddEdge ==
    /\ pc = "editor"
    /\ \E source \in EditorIds, target \in EditorIds :
          LET r == GraphEditor_add_edge(graph, source, target)
          IN /\ graph' = r.graph
             /\ ret' = Called("add_edge", source, target, NoKwargs, r.val, graph)
    /\ UNCHANGED <<tasks, pc, stdout, err>>

EditorRemoveEdge ==
    /\ pc = "editor"
    /\ \E source \in EditorIds, target \in EditorIds :
          LET r == GraphEditor_remove_edge(graph, source, target)
          IN /\ graph' = r.graph
             /\ ret' = Called("remove_edge", source, target, NoKwargs, r.val, graph)
    /\ UNCHANGED <<tasks, pc, stdout, err>>

EditorUpdateNode ==
    /\ pc = "editor"
    /\ \E node_id \in EditorIds, kwargs \in EditorKwargs :
          LET r == GraphEditor_update_node(graph, node_id, kwargs)
          IN /\ graph' = r.graph
             /\ ret' = Called("update_node", node_id, 0, kwargs, r.val, graph)
    /\ UNCHANGED <<tasks, pc, stdout, err>>

EditorClearGraph ==
    /\ pc = "editor"
    /\ graph' = GraphEditor_clear_graph(graph)
    /\ ret' = Called("clear_graph", 0, 0, NoKwargs, FALSE, graph)
    /\ UNCHANGED <<tasks, pc, stdout, err>>

\* CriticalPathAnalyzer(editor.export_tasks()): ret.before holds the graph
\* the analyzer built from the exported list
EditorExportTasks ==
    /\ pc = "editor"
    /\ ret' = Called("export_tasks", 0, 0, NoKwargs, FALSE,
                     build_dependency_graph(GraphEditor_export_tasks(graph)))
    /\ UNCHANGED <<tasks, graph, pc, stdout, err>>

EditorNext ==
    \/ EditorAddNode
    \/ EditorRemoveNode
    \/ EditorAddEdge
    \/ EditorRemoveEdge
    \/ EditorUpdateNode
    \/ EditorClearGraph
    \/ EditorExportTasks

SpecEditor == InitEditor /\ [][EditorNext]_vars

(***************************************************************************)
(* ai_collab_optimizer3/app.py: analyze_workflow(tasks).  A task is read   *)
(* as task['id'], task['estimated_time'] and task['dependencies'].         *)
(***************************************************************************)
\* DiGraph.add_edge(u, v): nodes that are not in the graph yet are created,
\* without attributes (read back as estimated_time 0)
add_edge_nodes(G, u, v) ==
    LET Gu == IF u \in NodeSet(G) THEN G ELSE add_node(G, u, [estimated_time |-> 0])
        Gv == IF v \in NodeSet(Gu) THEN Gu ELSE add_node(Gu, v, [estimated_time |-> 0])
    IN add_edge(Gv, u, v)

RECURSIVE variant_deps(_, _, _, _)
variant_deps(G, ts, task, j) ==
    IF j > Len(task.deps) THEN G
    ELSE IF task.deps[j] \in {ts[k].id : k \in 1..Len(ts)}
         THEN variant_deps(add_edge_nodes(G, task.deps[j], task.id), ts, task, j + 1)
         ELSE variant_deps(G, ts, task, j + 1)

RECURSIVE variant_graph(_, _, _)
variant_graph(G, ts, i) ==
    IF i > Len(ts) THEN G
    ELSE variant_graph(
             variant_deps(add_node(G, ts[i].id, [estimated_time |-> ts[i].raw]),
                          ts, ts[i], 1),
             ts, i + 1)

\* index of the first largest key, as Python's max(..., key=...) picks it
first_max(keys) ==
    MinOf({i \in 1..Len(keys) : \A j \in 1..Len(keys) : keys[j] <= keys[i]})

\* dist of nx.dag_longest_path: for each node in topological order, (length,
\* best predecessor); the edges carry no 'estimated_time', so every edge
\* weighs default_weight = 1
RECURSIVE longest_dist(_, _, _, _)
longest_dist(G, order, i, dist) ==
    IF i > Len(order) THEN dist
    ELSE LET v == order[i]
             preds == predecessors(G, v)
             us == [k \in 1..Len(preds) |-> <<dist[preds[k]][1] + 1, preds[k]>>]
             maxu == IF us # <<>>
                     THEN us[first_max([k \in 1..Len(us) |-> us[k][1]])]
                     ELSE <<0, v>>
         IN longest_dist(G, order, i + 1,
                [n \in DOMAIN dist \cup {v} |-> IF n = v THEN maxu ELSE dist[n]])

RECURSIVE walk_back(_, _, _)
walk_back(dist, v, path) ==
    IF dist[v][2] = v THEN <<v>> \o path
    ELSE walk_back(dist, dist[v][2], <<v>> \o path)

\* nx.dag_longest_path(G, weight='estimated_time'); ok is FALSE when
\* topological_sort raises NetworkXUnfeasible
dag_longest_path(G) ==
    IF G.nodes = <<>> THEN [ok |-> TRUE, path |-> <<>>]
    ELSE LET topo == topological_sort(G)
         IN IF ~topo.ok THEN [ok |-> FALSE, path |-> <<>>]
            ELSE LET dist == longest_dist(G, topo.order, 1, <<>>)
                     v == topo.order[first_max([k \in 1..Len(topo.order) |->
                                                     dist[topo.order[k]][1]])]
                 IN [ok |-> TRUE, path |-> walk_back(dist, v, <<>>)]

variant_analyze_workflow(ts) ==
    LET G == variant_graph(EmptyGraph, ts, 1)
        longest == dag_longest_path(G)
        critical_path == IF longest.ok THEN longest.path ELSE <<>>
    IN [critical_path |-> critical_path,
        total_time    |-> SumSeq([i \in 1..Len(critical_path) |->
                                     G.data[critical_path[i]].estimated_time]),
        has_cycle     |-> ~topological_sort(G).ok,
        graph         |-> G]

\* tasks whose dependencies may name themselves or no task
VariantRecords ==
    {HoursTask(i, d, deps) : i \in 1..MaxRecords, d \in 1..MaxDur,
                             deps \in SUBSET (1..(MaxRecords + 1))}

VariantInputs == GeneralInputs \cup ListsOf(VariantRecords)

InitVariant ==
    /\ tasks \in VariantInputs
    /\ graph = EmptyGraph
    /\ pc = "request"
    /\ ret = NoRet
    /\ stdout = {}
    /\ err = "none"

\* analysis = analyze_workflow(tasks); graph keeps the local G
VariantAnalyze ==
    /\ pc = "request"
    /\ LET r == variant_analyze_workflow(tasks)
       IN /\ ret' = [op |-> "analyze_workflow", arg |-> 0, list |-> r.critical_path,
                     num |-> r.total_time, has_cycle |-> r.has_cycle]
          /\ graph' = r.graph
    /\ pc' = "responded"
    /\ UNCHANGED <<tasks, stdout, err>>

VariantNext == VariantAnalyze

SpecVariant == InitVariant /\ [][VariantNext]_vars

(***************************************************************************)
(* Vocabulary of the properties, stated on the graph itself.               *)
(***************************************************************************)
EdgeSet(G) == Range(G.edges)

Succ(G, n) == {e[2] : e \in {f \in EdgeSet(G) : f[1] = n}}

Pred(G, n) == {e[1] : e \in {f \in EdgeSet(G) : f[2] = n}}

RECURSIVE Closure(_, _)
Closure(G, R) ==
    LET R2 == R \cup UNION {Succ(G, m) : m \in R}
    IN IF R2 = R THEN R ELSE Closure(G, R2)

\* the nodes reachable from n along one or more dependency edges
Reachable(G, n) == Closure(G, Succ(G, n))

HasCycle(G) == \E n \in NodeSet(G) : n \in Reachable(G, n)

Acyclic(G) == ~HasCycle(G)

Constructed == pc = "ready"

ProjectDuration(G) == MaxOf({G.data[n].early_finish : n \in NodeSet(G)} \cup {0})

Ids(list) == [i \in 1..Len(list) |-> list[i].id]

Position(G, n) == CHOOSE i \in 1..Len(G.nodes) : G.nodes[i] = n

\* the tasks are the documented A/B/C/D scenario, in some record order
IsScenario ==
    /\ Len(tasks) = 4
    /\ \A k \in 1..4 :
          tasks[k] = HoursTask(tasks[k].id, ScenarioDuration[tasks[k].id],
                               ScenarioDeps[tasks[k].id])

(***************************************************************************)
(* C1: constructing the analyzer on a task set whose dependency graph has  *)
(* a directed cycle ends in an explicit cycle error, not in a schedule.    *)
(***************************************************************************)
C1_CycleRaisesError ==
    (Constructed /\ HasCycle(graph)) => err # "none"

(***************************************************************************)
(* C2: for a task set with a dependency cycle, what the caller observes    *)
(* (project duration, critical path, bottlenecks, error) differs from what *)
(* it observes for the empty task list.                                    *)
(***************************************************************************)
Observation(G, e) ==
    [project_duration |-> get_project_duration(G),
     critical_path    |-> get_critical_path(G),
     bottlenecks      |-> identify_bottlenecks(G, DefaultThreshold).val,
     error            |-> e]

EmptyListObservation ==
    LET G0 == build_dependency_graph(<<>>)
        G1 == forward_result(G0).graph
        G2 == backward_result(G1).graph
    IN Observation(G2, "none")

\* C2: a constructed analyzer on a cyclic graph is observably different from one
\* on the empty task list.
C2_CycleDistinctFromEmpty ==
    (Constructed /\ HasCycle(graph)) => Observation(graph, err) # EmptyListObservation

(***************************************************************************)
(* C3: on an acyclic graph, after forward_pass a task without predecessors *)
(* has early_start 0, any other task has early_start equal to the largest  *)
(* early_finish of its predecessors, and early_finish = early_start +      *)
(* duration for every task.                                                *)
(***************************************************************************)
ForwardDone == pc \in {"forwarded", "ready"}

\* C3: early_start is 0 or the largest early_finish of the predecessors, and
\* early_finish = early_start + duration, after forward_pass on an acyclic graph.
C3_ForwardPass ==
    (ForwardDone /\ Acyclic(graph)) =>
        \A n \in NodeSet(graph) :
            /\ graph.data[n].early_start =
                  IF Pred(graph, n) = {} THEN 0
                  ELSE MaxOf({graph.data[p].early_finish : p \in Pred(graph, n)})
            /\ graph.data[n].early_finish =
                  graph.data[n].early_start + graph.data[n].duration

\* a task waits for the later of two predecessors that finish at different times
C3_Witness ==
    /\ pc = "forwarded"
    /\ Acyclic(graph)
    /\ \E n \in NodeSet(graph) : \E p, q \in Pred(graph, n) :
          /\ graph.data[p].early_finish < graph.data[q].early_finish
          /\ graph.data[n].early_start = graph.data[q].early_finish

(***************************************************************************)
(* C4: on an acyclic graph, after backward_pass every sink has late_finish *)
(* equal to the project duration (the largest early_finish), every other   *)
(* task has late_finish equal to the smallest late_start of its            *)
(* successors, and late_start = late_finish - duration for every task.     *)
(***************************************************************************)
C4_BackwardPass ==
    (Constructed /\ Acyclic(graph)) =>
        \A n \in NodeSet(graph) :
            /\ graph.data[n].late_finish =
                  IF Succ(graph, n) = {} THEN ProjectDuration(graph)
                  ELSE MinOf({graph.data[s].late_start : s \in Succ(graph, n)})
            /\ graph.data[n].late_start =
                  graph.data[n].late_finish - graph.data[n].duration

\* a task must finish before the earlier of two successors with different late starts
C4_Witness ==
    /\ Constructed
    /\ Acyclic(graph)
    /\ \E n \in NodeSet(graph) : \E s, t \in Succ(graph, n) :
          /\ graph.data[s].late_start < graph.data[t].late_start
          /\ graph.data[n].late_finish = graph.data[s].late_start
    /\ \E n \in NodeSet(graph) :
          Succ(graph, n) = {} /\ graph.data[n].early_finish < ProjectDuration(graph)

(***************************************************************************)
(* C5: in the schedule of a non-empty acyclic graph every task has         *)
(* slack = late_start - early_start >= 0 and some task has slack 0.        *)
(***************************************************************************)
C5_Slack ==
    (Constructed /\ Acyclic(graph) /\ graph.nodes # <<>>) =>
        /\ \A n \in NodeSet(graph) :
              /\ graph.data[n].slack =
                    graph.data[n].late_start - graph.data[n].early_start
              /\ graph.data[n].slack >= 0
        /\ \E n \in NodeSet(graph) : graph.data[n].slack = 0

\* a schedule with a task of positive slack beside a task of zero slack
C5_Witness ==
    /\ Constructed
    /\ Acyclic(graph)
    /\ \E n, m \in NodeSet(graph) :
          graph.data[n].slack > 0 /\ graph.data[m].slack = 0

(***************************************************************************)
(* C6: for a non-empty acyclic graph, the durations of the tasks returned  *)
(* by get_critical_path() sum to get_project_duration().                   *)
(* That fails when two critical chains run in parallel.  As amended: the   *)
(* sum is at least the project duration, and equals it exactly when every  *)
(* two critical tasks are linked by a chain of dependencies (the critical  *)
(* tasks form one path).                                                   *)
(***************************************************************************)
DurationSum(list) == SumSeq([i \in 1..Len(list) |-> list[i].duration])

Linked(G, a, b) == a \in Reachable(G, b) \/ b \in Reachable(G, a)

CriticalPathReturned ==
    ret.op = "get_critical_path" /\ Acyclic(graph) /\ graph.nodes # <<>>

\* C6 as stated: the returned tasks' durations sum to the project duration.
C6_Original ==
    CriticalPathReturned => DurationSum(ret.list) = get_project_duration(graph)

\* C6 as amended: the sum is at least the project duration, with equality
\* exactly when the returned tasks are pairwise linked by dependencies.
C6_Amended ==
    CriticalPathReturned =>
        /\ DurationSum(ret.list) >= get_project_duration(graph)
        /\ DurationSum(ret.list) = get_project_duration(graph) <=>
              \A i, j \in 1..Len(ret.list) :
                  i # j => Linked(graph, ret.list[i].id, ret.list[j].id)

\* a single critical chain of several tasks beside a task with slack
C6_Witness ==
    /\ CriticalPathReturned
    /\ Len(ret.list) >= 2
    /\ Len(ret.list) < Len(graph.nodes)
    /\ DurationSum(ret.list) = get_project_duration(graph)

(***************************************************************************)
(* C7: get_critical_path() returns exactly the tasks whose is_critical     *)
(* flag is true, each once, in ascending early_start, tasks with equal     *)
(* early_start ordered by id whatever the order of the records.            *)
(* The sort is stable on early_start alone.  As amended: tasks with equal  *)
(* early_start keep the order in which their records were supplied (the    *)
(* insertion order of the graph's nodes).                                  *)
(***************************************************************************)
ExactlyCritical(list) ==
    /\ Range(Ids(list)) = {n \in NodeSet(graph) : graph.data[n].is_critical}
    /\ \A i, j \in 1..Len(list) : list[i].id = list[j].id => i = j
    /\ \A i \in 1..Len(list) : list[i] = task_dict(graph, list[i].id)

\* C7 as stated: exactly the critical tasks, ascending early_start, ties by id.
C7_Original ==
    ret.op = "get_critical_path" =>
        /\ ExactlyCritical(ret.list)
        /\ \A i, j \in 1..Len(ret.list) : i < j =>
              \/ ret.list[i].early_start < ret.list[j].early_start
              \/ /\ ret.list[i].early_start = ret.list[j].early_start
                 /\ ret.list[i].id < ret.list[j].id

\* C7 as amended: exactly the critical tasks, ascending early_start, ties in
\* the insertion order of the graph's nodes.
C7_Amended ==
    ret.op = "get_critical_path" =>
        /\ ExactlyCritical(ret.list)
        /\ \A i, j \in 1..Len(ret.list) : i < j =>
              \/ ret.list[i].early_start < ret.list[j].early_start
              \/ /\ ret.list[i].early_start = ret.list[j].early_start
                 /\ Position(graph, ret.list[i].id) < Position(graph, ret.list[j].id)

\* two critical tasks with equal early_start supplied in descending id order,
\* followed by a critical task that starts later although supplied first
C7_Witness ==
    /\ ret.op = "get_critical_path"
    /\ \E i, j \in 1..Len(ret.list) :
          /\ i < j
          /\ ret.list[i].early_start = ret.list[j].early_start
          /\ ret.list[i].id > ret.list[j].id
    /\ \E i, j \in 1..Len(ret.list) :
          /\ i < j
          /\ ret.list[i].early_start < ret.list[j].early_start
          /\ Position(graph, ret.list[i].id) > Position(graph, ret.list[j].id)

(***************************************************************************)
(* C8: for A(2), B(3, after A), C(1, after A), D(4, after B and C), with   *)
(* durations in the target unit, early_start/early_finish are A(0,2),      *)
(* B(2,5), C(2,3), D(5,9), the project duration is 9, the critical path is *)
(* [A, B, D] in that order, and C has slack 2.                             *)
(***************************************************************************)
C8_Scenario ==
    (Constructed /\ IsScenario) =>
        /\ graph.data[1].early_start = 0 /\ graph.data[1].early_finish = 2
        /\ graph.data[2].early_start = 2 /\ graph.data[2].early_finish = 5
        /\ graph.data[3].early_start = 2 /\ graph.data[3].early_finish = 3
        /\ graph.data[4].early_start = 5 /\ graph.data[4].early_finish = 9
        /\ get_project_duration(graph) = 9
        /\ Ids(get_critical_path(graph)) = <<1, 2, 4>>
        /\ graph.data[3].slack = 2
        /\ ret.op = "get_critical_path" => Ids(ret.list) = <<1, 2, 4>>
        /\ ret.op = "get_project_duration" => ret.num = 9

\* the scenario with its records supplied in the order D, C, B, A
C8_Witness ==
    /\ Constructed
    /\ IsScenario
    /\ Ids(tasks) = <<4, 3, 2, 1>>
    /\ ret.op = "get_critical_path"

(***************************************************************************)
(* C9: on an acyclic graph identify_bottlenecks(t) returns a task if and   *)
(* only if its slack <= t * project_duration and it has more than one      *)
(* descendant; in the A/B/C/D scenario with the default t = 0.2, A is      *)
(* returned and B is not.                                                  *)
(***************************************************************************)
BottlenecksReturned == ret.op = "identify_bottlenecks" /\ Acyclic(graph)

C10_BottleneckOrder ==
    ret.op = "identify_bottlenecks" =>
        \A i, j \in 1..Len(ret.list) : i < j =>
            \/ ret.list[i].impact > ret.list[j].impact
            \/ /\ ret.list[i].impact = ret.list[j].impact
               /\ ret.list[i].slack <= ret.list[j].slack

(***************************************************************************)
(* C11: running the analysis again on an unmodified graph (forward_pass    *)
(* and backward_pass called again on the same analyzer, also after         *)
(* get_critical_path or identify_bottlenecks, or a second analyzer built   *)
(* from the same records) yields identical early_start, early_finish,      *)
(* late_start, late_finish, slack and is_critical for every task.          *)
(***************************************************************************)
Timings(G) ==
    [n \in NodeSet(G) |->
        [early_start  |-> G.data[n].early_start,
         early_finish |-> G.data[n].early_finish,
         late_start   |-> G.data[n].late_start,
         late_finish  |-> G.data[n].late_finish,
         slack        |-> G.data[n].slack,
         is_critical  |-> G.data[n].is_critical]]

\* the graph of a second analyzer constructed from the records ts
Analyzed(ts) ==
    backward_result(forward_result(build_dependency_graph(ts)).graph).graph

\* C11: in every state of the constructed analyzer a further forward_pass, a
\* further backward_pass, both in sequence, and a fresh analyzer leave the timings as they are.
C11_Idempotent ==
    Constructed =>
        /\ Timings(forward_result(graph).graph) = Timings(graph)
        /\ Timings(backward_result(graph).graph) = Timings(graph)
        /\ Timings(backward_result(forward_result(graph).graph).graph) = Timings(graph)
        /\ Timings(Analyzed(tasks)) = Timings(graph)

\* an acyclic schedule with slack, queried for bottlenecks before the passes run again
C11_Witness ==
    /\ Constructed
    /\ Acyclic(graph)
    /\ ret.op = "identify_bottlenecks"
    /\ \E n \in NodeSet(graph) : graph.data[n].is_bottleneck
    /\ \E n \in NodeSet(graph) : graph.data[n].slack > 0

(***************************************************************************)
(* C12: an analyzer constructed from the empty task list raises no error   *)
(* and reports project duration 0, an empty critical path, an empty        *)
(* bottleneck list and an empty path list.                                 *)
(***************************************************************************)
EmptyInput == tasks = <<>> /\ pc # "new"

C12_EmptyList ==
    EmptyInput =>
        /\ err = "none"
        /\ graph = EmptyGraph
        /\ Constructed =>
              /\ get_project_duration(graph) = 0
              /\ get_critical_path(graph) = <<>>
              /\ \A t \in Thresholds : identify_bottlenecks(graph, t).val = <<>>
              /\ \A k \in PathCaps : get_minimum_viable_paths(graph, k) = <<>>
              /\ ret.op = "get_project_duration" => ret.num = 0
              /\ ret.op # "get_project_duration" => ret.list = <<>>

C12_Witness ==
    EmptyInput /\ Constructed /\ ret.op = "get_project_duration" /\ stdout = {}

(***************************************************************************)
(* C13: the built graph has an edge dep -> task only between two of its    *)
(* nodes with dep # task; its nodes are the non-empty record ids, so a     *)
(* dependency id that names no task adds no node and no edge; such a       *)
(* dependency and a self-dependency raise no error.                        *)
(***************************************************************************)
Built == pc \notin {"new", "failed"}

RecordIdsOf(ts) == {ts[i].id : i \in 1..Len(ts)} \ {EmptyId}

AllNumeric(ts) == \A i \in 1..Len(ts) : ts[i].numeric

Dangling(ts) ==
    \E i \in 1..Len(ts) : \E d \in Range(ts[i].deps) : d \notin RecordIdsOf(ts)

SelfDependent(ts) ==
    \E i \in 1..Len(ts) : ts[i].id # EmptyId /\ ts[i].id \in Range(ts[i].deps)

C13_EdgesValid ==
    /\ Built =>
          /\ \A e \in EdgeSet(graph) :
                e[1] \in NodeSet(graph) /\ e[2] \in NodeSet(graph) /\ e[1] # e[2]
          /\ NodeSet(graph) = RecordIdsOf(tasks)
          /\ \A e \in EdgeSet(graph) :
                \E i \in 1..Len(tasks) : tasks[i].id = e[2] /\ e[1] \in Range(tasks[i].deps)
    /\ (pc # "new" /\ AllNumeric(tasks)) => (err = "none" /\ pc # "failed")

C13_Witness ==
    /\ Constructed
    /\ Dangling(tasks)
    /\ SelfDependent(tasks)
    /\ graph.edges # <<>>

(***************************************************************************)
(* C14: a record with an empty id is skipped without error: it gives no    *)
(* node and no edge, and construction ends as it does for the same batch   *)
(* with that record removed (same nodes, durations and edges, in the same  *)
(* order; the same timings once scheduled).                                *)
(***************************************************************************)
Remove(s, i) == SubSeq(s, 1, i - 1) \o SubSeq(s, i + 1, Len(s))

EmptyIdRecords(ts) == {i \in 1..Len(ts) : ts[i].id = EmptyId}

Durations(G) == [n \in NodeSet(G) |-> G.data[n].duration]

C14_EmptyIdSkipped ==
    /\ Built =>
          /\ EmptyId \notin NodeSet(graph)
          /\ \A e \in EdgeSet(graph) : e[1] # EmptyId /\ e[2] # EmptyId
          /\ \A i \in EmptyIdRecords(tasks) :
                LET rest == build_dependency_graph(Remove(tasks, i))
                IN /\ graph.nodes = rest.nodes
                   /\ graph.edges = rest.edges
                   /\ Durations(graph) = Durations(rest)
                   /\ pc = "built" => graph = rest
                   /\ Constructed => Timings(graph) = Timings(Analyzed(Remove(tasks, i)))
    /\ pc = "failed" =>
          \E j \in 1..Len(tasks) : tasks[j].id # EmptyId /\ ~tasks[j].numeric

C14_Witness ==
    /\ Constructed
    /\ graph.edges # <<>>
    /\ \E i \in EmptyIdRecords(tasks) :
          /\ ~tasks[i].numeric
          /\ tasks[i].key \in DurationKeys
          /\ tasks[i].deps # <<>>

(***************************************************************************)
(* C15: the duration stored for a task is floor(raw * 8) when the value    *)
(* comes from 'Duration (days)' or 'duration', floor(raw) when it comes    *)
(* from 'estimated_time' (0 when the record has none of these keys), and   *)
(* 1 when that is below 1; every node has an integer duration >= 1.        *)
(***************************************************************************)
Floor(num, den) == num \div den

Floored(task) ==
    IF task.key \in {"Duration (days)", "duration"} THEN Floor(task.raw * 8, task.den)
    ELSE IF task.key = "estimated_time" THEN Floor(task.raw, task.den)
    ELSE 0

StoredDuration(task) == IF Floored(task) < 1 THEN 1 ELSE Floored(task)

\* the record that set node n's attributes: the last one with that id
LastRecord(ts, n) ==
    ts[MaxOf({i \in 1..Len(ts) : ts[i].id = n})]

C15_Duration ==
    Built =>
        \A n \in NodeSet(graph) :
            /\ graph.data[n].duration = StoredDuration(LastRecord(tasks, n))
            /\ graph.data[n].duration \in Nat
            /\ graph.data[n].duration >= 1

C15_Witness ==
    /\ Constructed
    /\ \E n \in NodeSet(graph) :
          LET r == LastRecord(tasks, n)
          IN r.key = "Duration (days)" /\ (r.raw * 8) % r.den # 0 /\ graph.data[n].duration > 1
    /\ \E n \in NodeSet(graph) :
          LET r == LastRecord(tasks, n)
          IN r.key = "estimated_time" /\ r.raw < 0 /\ r.raw % r.den # 0
             /\ graph.data[n].duration = 1

(***************************************************************************)
(* C16: a record whose duration is not numeric is skipped and recorded as  *)
(* a warning; construction is not aborted and the well-formed records of   *)
(* the batch are the nodes of the graph.                                   *)
(***************************************************************************)
Malformed(task) == task.id # EmptyId /\ task.key \in DurationKeys /\ ~task.numeric

WellFormedIds(ts) ==
    {ts[i].id : i \in {j \in 1..Len(ts) : ~Malformed(ts[j])}} \ {EmptyId}

C16_MalformedSkipped ==
    (pc # "new" /\ \E i \in 1..Len(tasks) : Malformed(tasks[i])) =>
        /\ err = "none"
        /\ pc # "failed"
        /\ stdout # {}
        /\ WellFormedIds(tasks) \subseteq NodeSet(graph)

(***************************************************************************)
(* C17: for max_paths >= 0, get_minimum_viable_paths(max_paths) returns    *)
(* min(max_paths, N) of the N simple paths from a node of in-degree 0 to a *)
(* node of out-degree 0, in ascending total duration, and no path left out *)
(* is shorter than a returned one.                                         *)
(***************************************************************************)
IsSimplePath(G, p) ==
    /\ \A i, j \in DOMAIN p : i # j => p[i] # p[j]
    /\ \A i \in 1..(Len(p) - 1) : <<p[i], p[i + 1]>> \in EdgeSet(G)

SourceToSinkPaths(G) ==
    {p \in UNION {[1..n -> NodeSet(G)] : n \in 1..Cardinality(NodeSet(G))} :
        /\ IsSimplePath(G, p)
        /\ Pred(G, p[1]) = {}
        /\ Succ(G, p[Len(p)]) = {}}

PathDuration(G, p) == SumSeq([i \in 1..Len(p) |-> G.data[p[i]].duration])

PathsReturned == ret.op = "get_minimum_viable_paths"

ReturnedIds == {Ids(ret.list[i].path) : i \in 1..Len(ret.list)}

C17_MinimumViablePaths ==
    PathsReturned =>
        LET all == SourceToSinkPaths(graph)
            N == Cardinality(all)
        IN /\ Len(ret.list) = (IF ret.arg < N THEN ret.arg ELSE N)
           /\ Cardinality(ReturnedIds) = Len(ret.list)
           /\ ReturnedIds \subseteq all
           /\ \A i \in 1..Len(ret.list) :
                 DurationSum(ret.list[i].path) = PathDuration(graph, Ids(ret.list[i].path))
           /\ \A i, j \in 1..Len(ret.list) :
                 i < j => DurationSum(ret.list[i].path) <= DurationSum(ret.list[j].path)
           /\ \A p \in all \ ReturnedIds : \A q \in ReturnedIds :
                 PathDuration(graph, p) >= PathDuration(graph, q)

\* some but not all paths are returned, of different durations, and the
\* shortest was not the first one enumerated
C17_Witness ==
    /\ PathsReturned
    /\ Acyclic(graph)
    /\ ret.arg > 0
    /\ Len(ret.list) = ret.arg
    /\ Cardinality(SourceToSinkPaths(graph)) > ret.arg
    /\ Ids(ret.list[1].path) # Ids(all_paths(graph)[1].path)
    /\ \A i \in 1..Len(ret.list) : Len(ret.list[i].path) > 1
    /\ \E p \in SourceToSinkPaths(graph) :
          PathDuration(graph, p) > DurationSum(ret.list[Len(ret.list)].path)

(***************************************************************************)
(* C18: each returned path carries, besides its ordered tasks, its         *)
(* aggregate duration (the sum of its tasks' durations) and an is_critical *)
(* flag that is true iff every task on the path is critical.               *)
(***************************************************************************)
C18_PathCarriesAggregates ==
    PathsReturned =>
        \A i \in 1..Len(ret.list) :
            LET r == ret.list[i]
            IN /\ {"path", "duration", "is_critical"} \subseteq DOMAIN r
               /\ r.duration = DurationSum(r.path)
               /\ r.is_critical =
                     (\A k \in 1..Len(r.path) : graph.data[r.path[k].id].is_critical)

(***************************************************************************)
(* C19: for a non-empty task list generate_gantt_data returns one entry    *)
(* per task, with Start the task's early_start and Finish = Start +        *)
(* Duration, the entries in ascending Start with input order kept among    *)
(* equal Start, and project_duration the largest Finish.                   *)
(***************************************************************************)
Charted == ret.op = "generate_gantt_data" /\ tasks # <<>>

\* task ids of the chart inputs are the input positions
EntryOf(out, i) == CHOOSE k \in 1..Len(out) : out[k].Task_ID = tasks[i].id

C19_Gantt ==
    Charted =>
        LET out == ret.data.tasks
        IN /\ Len(out) = Len(tasks)
           /\ \A i \in 1..Len(tasks) :
                 /\ Cardinality({k \in 1..Len(out) : out[k].Task_ID = tasks[i].id}) = 1
                 /\ out[EntryOf(out, i)].Start = tasks[i].early_start
                 /\ out[EntryOf(out, i)].Duration = Floor(tasks[i].raw, tasks[i].den)
           /\ \A k \in 1..Len(out) : out[k].Finish = out[k].Start + out[k].Duration
           /\ \A j, k \in 1..Len(out) :
                 j < k => \/ out[j].Start < out[k].Start
                          \/ /\ out[j].Start = out[k].Start
                             /\ out[j].Task_ID < out[k].Task_ID
           /\ ret.data.project_duration = MaxOf({out[k].Finish : k \in 1..Len(out)})

C19_Witness ==
    /\ Charted
    /\ LET out == ret.data.tasks
       IN /\ \E j, k \in 1..Len(out) : j < k /\ out[j].Task_ID > out[k].Task_ID
          /\ \E j, k \in 1..Len(out) : j < k /\ out[j].Start = out[k].Start
          /\ ret.data.project_duration > out[Len(out)].Finish
          /\ \E k \in 1..Len(out) : out[k].Duration > 0

(***************************************************************************)
(* C20: generate_gantt_data assigns colours in first-seen resource order.  *)
(***************************************************************************)
ResourcesOf(ts) == {ts[i].resource : i \in 1..Len(ts)}

FirstSeenAt(ts, r) == MinOf({i \in 1..Len(ts) : ts[i].resource = r})

\* the reported resources are the distinct resources in first-seen order
FirstSeenOrder(list) ==
    /\ Range(list) = ResourcesOf(tasks)
    /\ Len(list) = Cardinality(ResourcesOf(tasks))
    /\ \A j, k \in 1..Len(list) :
          j < k => FirstSeenAt(tasks, list[j]) < FirstSeenAt(tasks, list[k])

\* every entry has the colour of its resource
ColourPerResource ==
    /\ DOMAIN ret.data.resource_colors = ResourcesOf(tasks)
    /\ \A k \in 1..Len(ret.data.tasks) :
          ret.data.tasks[k].Color = ret.data.resource_colors[ret.data.tasks[k].Resource]

\* C20 as stated: every task of a resource has that resource's colour, two
\* distinct resources never share a colour, and the resources list is in
\* first-seen order.
C20_Original ==
    Charted =>
        /\ FirstSeenOrder(ret.data.resources)
        /\ ColourPerResource
        /\ \A r1, r2 \in ResourcesOf(tasks) :
              r1 # r2 => ret.data.resource_colors[r1] # ret.data.resource_colors[r2]

\* C20 amended: the k-th distinct resource in first-seen order gets entry
\* ((k - 1) mod 10) + 1 of the ten-colour palette, every task of a resource
\* has that resource's colour, the resources list is in first-seen order, and
\* two distinct resources share a colour exactly when their first-seen
\* positions differ by a multiple of ten.
C20_Amended ==
    Charted =>
        LET list == ret.data.resources
        IN /\ FirstSeenOrder(list)
           /\ ColourPerResource
           /\ \A k \in 1..Len(list) :
                 ret.data.resource_colors[list[k]] = colors[((k - 1) % Len(colors)) + 1]
           /\ \A j, k \in 1..Len(list) :
                 (ret.data.resource_colors[list[j]] = ret.data.resource_colors[list[k]])
                     <=> ((j - k) % Len(colors) = 0)

\* more resources than colours: the palette has wrapped around
C20_Witness ==
    /\ Charted
    /\ Len(ret.data.resources) > Len(colors)
    /\ \E j, k \in 1..Len(ret.data.resources) :
          /\ j # k
          /\ ret.data.resource_colors[ret.data.resources[j]]
                = ret.data.resource_colors[ret.data.resources[k]]

(***************************************************************************)
(* C21: the task set an analyze_workflow call hands to its                 *)
(* CriticalPathAnalyzer is exactly the records passed to that call (their  *)
(* ids and durations), whatever earlier /api/graph/update operations left  *)
(* in graph_editor and however another call's steps interleave with it.    *)
(***************************************************************************)
Finished(c) == pc[c].at = "done"

IdsAndDurations(ts) == {<<ts[i].id, ts[i].raw>> : i \in 1..Len(ts)}

C21_OwnTasksAnalysed ==
    \A c \in Calls :
        Finished(c) => IdsAndDurations(ret[c].handed) = IdsAndDurations(tasks[c])

(***************************************************************************)
(* C22: on a graph with a cycle, get_critical_path() and                   *)
(* identify_bottlenecks() return no task whose timings are the uncomputed  *)
(* initial values (early_start 0, slack 0, late_start infinity).           *)
(***************************************************************************)
Uncomputed(entry) ==
    entry.early_start = 0 /\ entry.slack = 0 /\ entry.late_start = Inf

C22_NoDefaultTimings ==
    (Constructed /\ HasCycle(graph)
        /\ ret.op \in {"get_critical_path", "identify_bottlenecks"}) =>
        \A i \in 1..Len(ret.list) : ~Uncomputed(ret.list[i])

(***************************************************************************)
(* C23: in ai_collab_optimizer3, analyze_workflow(tasks) returns has_cycle *)
(* = true iff the dependency graph of the tasks (edges only for dependency *)
(* ids that name a task) has a directed cycle; then critical_path is empty *)
(* and total_time is 0; otherwise total_time is the largest sum of         *)
(* estimated_time along any dependency chain.                              *)
(***************************************************************************)
Responded == ret.op = "analyze_workflow"

TaskIdsOf(ts) == {ts[i].id : i \in 1..Len(ts)}

DependencyEdges(ts) ==
    {e \in TaskIdsOf(ts) \X TaskIdsOf(ts) :
        \E i \in 1..Len(ts) : ts[i].id = e[2] /\ e[1] \in Range(ts[i].deps)}

EstimatedTime(ts, n) == LastRecord(ts, n).raw

\* sequences of distinct tasks, each a dependency of the next
Chains(ts) ==
    {p \in UNION {[1..n -> TaskIdsOf(ts)] : n \in 1..Cardinality(TaskIdsOf(ts))} :
        /\ \A i, j \in DOMAIN p : i # j => p[i] # p[j]
        /\ \A i \in 1..(Len(p) - 1) : <<p[i], p[i + 1]>> \in DependencyEdges(ts)}

HasDirectedCycle(ts) ==
    \E p \in Chains(ts) : <<p[Len(p)], p[1]>> \in DependencyEdges(ts)

ChainSum(ts, p) == SumSeq([i \in 1..Len(p) |-> EstimatedTime(ts, p[i])])

LargestChainSum(ts) == MaxOf({0} \cup {ChainSum(ts, p) : p \in Chains(ts)})

C23_VariantCycleFlag ==
    Responded =>
        /\ ret.has_cycle <=> HasDirectedCycle(tasks)
        /\ ret.has_cycle => (ret.list = <<>> /\ ret.num = 0)
        /\ ~ret.has_cycle => ret.num = LargestChainSum(tasks)

(***************************************************************************)
(* GraphEditor claims                                                      *)
(***************************************************************************)
Editing == pc = "editor"

EditorCall(ops) == Editing /\ ret.op \in ops

AttrKeys == {"duration", "note"}

\* C24: add_edge, remove_node, remove_edge and update_node return True
\* exactly when their target exists in the graph before the call (both
\* endpoints, the node, the edge, the node); a call that returns False
\* leaves nodes, edges and attributes as they were; update_node leaves an
\* attribute whose keyword value is None as it was.
C24_EditorReturns ==
    /\ EditorCall({"add_edge"}) =>
          (ret.val <=> {ret.node, ret.target} \subseteq NodeSet(ret.before))
    /\ EditorCall({"remove_node", "update_node"}) =>
          (ret.val <=> ret.node \in NodeSet(ret.before))
    /\ EditorCall({"remove_edge"}) =>
          (ret.val <=> <<ret.node, ret.target>> \in EdgeSet(ret.before))
    /\ (EditorCall({"add_edge", "remove_node", "remove_edge", "update_node"}) /\ ~ret.val) =>
          graph = ret.before
    /\ (EditorCall({"update_node"}) /\ ret.val) =>
          \A k \in AttrKeys :
             /\ ret.kwargs[k] = None =>
                   graph.data[ret.node][k] = ret.before.data[ret.node][k]
             /\ graph.data[ret.node][k] # None

\* add_edge refused because only one endpoint exists, on a graph that has an edge
C24_Witness ==
    /\ EditorCall({"add_edge"})
    /\ ~ret.val
    /\ ret.node \in NodeSet(ret.before)
    /\ ret.target \notin NodeSet(ret.before)
    /\ EdgeSet(graph) # {}

Exported == EditorCall({"export_tasks"})

\* C25: the graph CriticalPathAnalyzer builds from export_tasks() has the
\* editor graph's node ids, its dependency edges and, for every node whose
\* editor duration is at least 1, that duration.
C25_ExportRoundTrip ==
    Exported =>
       /\ NodeSet(ret.before) = NodeSet(graph)
       /\ EdgeSet(ret.before) = EdgeSet(graph)
       /\ \A n \in NodeSet(graph) :
             graph.data[n].duration >= 1 =>
                ret.before.data[n].duration = graph.data[n].duration

(***************************************************************************)
(* analyze_workflow against the analyzer                                   *)
(***************************************************************************)
\* no other call has started
Alone(c) == \A d \in Calls \ {c} : pc[d] = Idle

CriticalIds(G) == {n \in NodeSet(G) : G.data[n].is_critical}

\* C26: a call of analyze_workflow on a non-empty acyclic list, run with no
\* other call in progress, returns success = True with the project duration
\* and the critical task ids of an analyzer built from the same records.
C26_WorkflowMatchesAnalyzer ==
    \A c \in Calls :
        (Finished(c) /\ Alone(c) /\ tasks[c] # <<>>) =>
            /\ ret[c].success
            /\ ret[c].project_duration = ProjectDuration(Analyzed(tasks[c]))
            /\ Range(Ids(ret[c].critical_path)) = CriticalIds(Analyzed(tasks[c]))

(***************************************************************************)
(* Paths and the critical tasks                                            *)
(***************************************************************************)
Scheduled == Constructed /\ Acyclic(graph)

AllCritical(G, p) == \A i \in 1..Len(p) : G.data[p[i]].is_critical

LongestPathDuration(G) ==
    MaxOf({0} \cup {PathDuration(G, p) : p \in SourceToSinkPaths(G)})

OnPath(p, n) == \E i \in 1..Len(p) : p[i] = n

\* C27 as stated: in an acyclic schedule the largest total duration of a
\* source-to-sink path is project_duration, and a source-to-sink path is made
\* of critical tasks only if and only if its total is project_duration.
C27_Original ==
    Scheduled =>
        /\ LongestPathDuration(graph) = get_project_duration(graph)
        /\ \A p \in SourceToSinkPaths(graph) :
              AllCritical(graph, p) <=>
                  PathDuration(graph, p) = get_project_duration(graph)

\* C27 amended: the largest total is project_duration; a source-to-sink path
\* whose total is project_duration is made of critical tasks only; every
\* critical task lies on such a path.
C27_Amended ==
    Scheduled =>
        /\ LongestPathDuration(graph) = get_project_duration(graph)
        /\ \A p \in SourceToSinkPaths(graph) :
              PathDuration(graph, p) = get_project_duration(graph) =>
                  AllCritical(graph, p)
        /\ \A n \in CriticalIds(graph) :
              \E p \in SourceToSinkPaths(graph) :
                  /\ OnPath(p, n)
                  /\ PathDuration(graph, p) = get_project_duration(graph)

\* a longest path of critical tasks beside a shorter path through a task with slack
C27_Witness ==
    /\ Scheduled
    /\ \E p, q \in SourceToSinkPaths(graph) :
          /\ PathDuration(graph, p) = get_project_duration(graph)
          /\ AllCritical(graph, p)
          /\ PathDuration(graph, q) < get_project_duration(graph)
          /\ ~AllCritical(graph, q)

Candidates(G) == {Ids(all_paths(G)[i].path) : i \in 1..Len(all_paths(G))}

Isolated(G) == {n \in NodeSet(G) : Pred(G, n) = {} /\ Succ(G, n) = {}}

\* C28: each path get_minimum_viable_paths considers starts at a task without
\* predecessors, ends at a task without successors, follows an edge at every
\* step and repeats no task; every such path of the graph is considered, and
\* so is the one-task path of each task that has no edge at all.
C28_Candidates ==
    Constructed =>
        /\ \A p \in Candidates(graph) :
              /\ p # <<>>
              /\ Pred(graph, p[1]) = {}
              /\ Succ(graph, p[Len(p)]) = {}
              /\ IsSimplePath(graph, p)
        /\ \A p \in SourceToSinkPaths(graph) : p \in Candidates(graph)
        /\ \A n \in Isolated(graph) : <<n>> \in Candidates(graph)

\* a call returned the one-task path of an isolated task and a longer path
C28_Witness ==
    /\ PathsReturned
    /\ \E n \in Isolated(graph) : <<n>> \in ReturnedIds
    /\ \E p \in ReturnedIds : Len(p) >= 2

(***************************************************************************)
(* Repeated identify_bottlenecks calls                                     *)
(***************************************************************************)
Flagged(G) == {n \in NodeSet(G) : G.data[n].is_bottleneck}

\* C29: after any sequence of identify_bottlenecks calls the nodes carrying
\* is_bottleneck = True are exactly the nodes of the list the most recent
\* call returned, and the timings are those the constructor computed.
C29_FlagsFollowLastCall ==
    BottlenecksReturned =>
        /\ Flagged(graph) = Range(Ids(ret.list))
        /\ Timings(graph) = Timings(Analyzed(tasks))

(***************************************************************************)
(* The editor graph stays well formed                                      *)
(***************************************************************************)
Incident(G, n) == {e \in EdgeSet(G) : e[1] = n \/ e[2] = n}

EndpointsAreNodes(G) == \A e \in EdgeSet(G) : e[1] \in NodeSet(G) /\ e[2] \in NodeSet(G)

NodeRemoved == EditorCall({"remove_node"}) /\ ret.val

ReAdded == EditorCall({"add_node"}) /\ ret.node \in NodeSet(ret.before)

\* the attributes add_node gives a node that was not in the graph
FreshAttrs(duration) == [duration |-> duration, dependencies |-> <<>>, note |-> Absent]

\* C30 as stated: after any sequence of editor operations both endpoints of
\* every edge are nodes; remove_node removes the node's incident edges and no
\* others; add_node on an existing id replaces the node's attributes (they
\* become those of a newly added node) and keeps the edges.
C30_Original ==
    /\ Editing => EndpointsAreNodes(graph)
    /\ NodeRemoved =>
          /\ NodeSet(graph) = NodeSet(ret.before) \ {ret.node}
          /\ EdgeSet(graph) = EdgeSet(ret.before) \ Incident(ret.before, ret.node)
    /\ ReAdded =>
          /\ graph.data[ret.node] = FreshAttrs(ret.target)
          /\ graph.nodes = ret.before.nodes
          /\ graph.edges = ret.before.edges

\* C30 amended: as above, except that add_node on an existing id sets the
\* attributes it is given (duration, dependencies) and leaves an attribute
\* that only update_node has set as it was.
C30_Amended ==
    /\ Editing => EndpointsAreNodes(graph)
    /\ NodeRemoved =>
          /\ NodeSet(graph) = NodeSet(ret.before) \ {ret.node}
          /\ EdgeSet(graph) = EdgeSet(ret.before) \ Incident(ret.before, ret.node)
    /\ ReAdded =>
          /\ graph.data[ret.node].duration = ret.target
          /\ graph.data[ret.node].dependencies = <<>>
          /\ graph.data[ret.node].note = ret.before.data[ret.node].note
          /\ graph.nodes = ret.before.nodes
          /\ graph.edges = ret.before.edges

\* a node with an edge and an attribute set by update_node is added again
\* with another duration
C30_Witness ==
    /\ ReAdded
    /\ Incident(graph, ret.node) # {}
    /\ ret.before.data[ret.node].note # Absent
    /\ ret.before.data[ret.node].duration # ret.target

=============================================================================
